---- MODULE Spec2Model ----
\* A model of sync.py: the pipeline of main (authenticate, prompt, fetch,
\* transform, write, open) and the per-record transformation
\* create_ical_event.  Python dicts are functions whose DOMAIN is the set of
\* keys present; ISO-8601 texts are records of their parsed fields.
EXTENDS Integers, Sequences, FiniteSets, TLC

\* ---------------------------------------------------------------- bounds
\* Longest list of events the event source returns in one response.
MaxEvents == 2

\* ---------------------------------------------------------------- values
MinutesPerDay == 24 * 60

\* UTC offsets (minutes) carried by time-zone-qualified texts.
Offsets == {-300, 0, 330}
\* UTC offsets (minutes) of the machine's local zone.
Zones == {-300, 0, 60}
\* Proleptic day numbers (date.toordinal()) of the dates that occur.
Days == {10, 11}
Minutes == {60, 540, 1410}

EmptyDict == [k \in {} |-> 0]
\* Python's None
None == [kind |-> "None"]

\* dict.get(key, default)
get(d, k, default) == IF k \in DOMAIN d THEN d[k] ELSE default

\* "2024-01-15T09:00:00-05:00", "2024-01-15T09:00:00", "2024-03-01", and a
\* text that is no ISO-8601 value.
AwareTexts == [kind : {"datetime"}, day : Days, min : Minutes, off : Offsets]
NaiveTexts == [kind : {"datetime"}, day : Days, min : Minutes]
DateTexts == [kind : {"date"}, day : Days]
BadText == [kind |-> "text"]

Opt(k, V) == {EmptyDict} \cup {k :> v : v \in V}

\* the start / end mapping of an event resource
TimeMappings ==
  {a @@ b : a \in Opt("dateTime", AwareTexts \cup NaiveTexts \cup {BadText}),
            b \in Opt("date", DateTexts)}

Titles == {"", "Standup"}
Descriptions == {"notes"}
Locations == {"Room 1"}

RawEventRecords ==
  {s @@ d @@ l @@ a @@ b :
     s \in Opt("summary", Titles), d \in Opt("description", Descriptions),
     l \in Opt("location", Locations),
     a \in Opt("start", TimeMappings), b \in Opt("end", TimeMappings)}

\* ------------------------------------------------------ create_ical_event
\* datetime.datetime.fromisoformat: a naive datetime has no utcoffset key.
fromisoformat(s) ==
  IF s.kind = "None" THEN [exc |-> "TypeError"]
  ELSE IF s.kind = "text" THEN [exc |-> "ValueError"]
  ELSE IF s.kind = "date" THEN [exc |-> "none", value |-> [day |-> s.day, min |-> 0]]
  ELSE IF "off" \in DOMAIN s
    THEN [exc |-> "none", value |-> [day |-> s.day, min |-> s.min, utcoffset |-> s.off]]
    ELSE [exc |-> "none", value |-> [day |-> s.day, min |-> s.min]]

\* a mutant of astimezone: the wall-clock fields are kept and only the zone
\* is replaced (datetime.replace(tzinfo=UTC))
astimezone_replace(dt, z) == [day |-> dt.day, min |-> dt.min, utcoffset |-> 0]

\* datetime.astimezone(ZoneInfo("UTC")): a naive value is taken to be in the
\* system local zone z
astimezone(dt, z) ==
  LET off == IF "utcoffset" \in DOMAIN dt THEN dt.utcoffset ELSE z
      t == dt.day * MinutesPerDay + dt.min - off
  IN [day |-> t \div MinutesPerDay, min |-> t % MinutesPerDay, utcoffset |-> 0]

\* a mutant of chosen: the date-only field is preferred
chosen_date_first(m) == get(m, "date", get(m, "dateTime", None))

\* mapping.get('dateTime', mapping.get('date'))
chosen(m) == get(m, "dateTime", get(m, "date", None))

Raise(e, locals) == [exc |-> e, locals |-> locals]

create_ical_event(event, z) ==
  IF "start" \notin DOMAIN event THEN Raise("KeyError", EmptyDict)
  ELSE LET start == chosen(event.start) IN
  IF "end" \notin DOMAIN event THEN Raise("KeyError", "start" :> start)
  ELSE LET end == chosen(event.end)
           locals == ("start" :> start) @@ ("end" :> end)
           ps == fromisoformat(start)
           pe == fromisoformat(end) IN
  IF ps.exc # "none" THEN Raise(ps.exc, locals)
  ELSE IF pe.exc # "none" THEN Raise(pe.exc, locals)
  ELSE [exc |-> "none", locals |-> locals,
        entry |-> [summary |-> get(event, "summary", "No Title"),
                   dtstart |-> astimezone(ps.value, z),
                   dtend |-> astimezone(pe.value, z),
                   description |-> get(event, "description", ""),
                   location |-> get(event, "location", "")]]

NoResult == [exc |-> "pending"]
\* the loop variable of save_ical_file before the first iteration
NoEvent == [unbound |-> TRUE]

\* ------------------------------------------------------------ to_ical
\* vDDDTypes of a UTC datetime: YYYYMMDD "T" HHMMSS "Z"
vDatetime(dt) ==
  [date |-> dt.day, hour |-> dt.min \div 60, minute |-> dt.min % 60, suffix |-> "Z"]

ContentLine(n, v) == [name |-> n, value |-> v]

\* Event.to_ical: SUMMARY, DTSTART, DTEND lead (canonical order), the other
\* properties follow by name
event_to_ical(e) ==
  << ContentLine("BEGIN", "VEVENT"),
     ContentLine("SUMMARY", e.summary),
     ContentLine("DTSTART", vDatetime(e.dtstart)),
     ContentLine("DTEND", vDatetime(e.dtend)),
     ContentLine("DESCRIPTION", e.description),
     ContentLine("LOCATION", e.location),
     ContentLine("END", "VEVENT") >>

RECURSIVE subcomponents_to_ical(_)
subcomponents_to_ical(subs) ==
  IF subs = <<>> THEN <<>>
  ELSE event_to_ical(Head(subs)) \o subcomponents_to_ical(Tail(subs))

\* Calendar.to_ical
to_ical(c) ==
  <<ContentLine("BEGIN", "VCALENDAR")>> \o subcomponents_to_ical(c.subcomponents)
    \o <<ContentLine("END", "VCALENDAR")>>

\* a mutant of add_component: the component is put in front
add_component_front(c, e) == [subcomponents |-> <<e>> \o c.subcomponents]

\* Calendar.add_component
add_component(c, e) == [subcomponents |-> Append(c.subcomponents, e)]

\* ------------------------------------------------------------ environment
\* token.json: absent, unreadable, or holding credentials that are valid,
\* expired with a refresh token, or neither valid nor refreshable
TokenStates == {"absent", "corrupt", "valid", "expired", "invalid"}

NoFile == EmptyDict
OldFile == [bytes |-> <<ContentLine("BEGIN", "VCALENDAR"), ContentLine("X-OLD", "1"),
                        ContentLine("END", "VCALENDAR")>>]

\* what the user types at the three prompts
TypedInputs ==
  [calendarId : {"", "work@example.com"},
   timeMin : {"", "2024-01-01T00:00:00Z"},
   orderBy : {"", "startTime", "updated", "foo"}]

Now == "now"

At(d, m, o) == [kind |-> "datetime", day |-> d, min |-> m, off |-> o]
On(d) == [kind |-> "date", day |-> d]

Standup ==
  ("summary" :> "Standup") @@ ("start" :> ("dateTime" :> At(10, 540, -300)))
    @@ ("end" :> ("dateTime" :> At(10, 1410, -300)))
AllDay ==
  ("start" :> ("date" :> On(10))) @@ ("end" :> ("date" :> On(11)))
Untitled ==
  ("summary" :> "") @@ ("description" :> "notes") @@ ("location" :> "Room 1")
    @@ ("start" :> (("dateTime" :> At(11, 60, 330)) @@ ("date" :> On(10))))
    @@ ("end" :> ("dateTime" :> At(11, 540, 330)))
NoStart ==
  ("summary" :> "Standup") @@ ("end" :> ("dateTime" :> At(10, 540, 0)))
NoEndValue ==
  ("summary" :> "Standup") @@ ("start" :> ("dateTime" :> At(10, 540, 0)))
    @@ ("end" :> EmptyDict)
Unparseable ==
  ("start" :> ("dateTime" :> BadText)) @@ ("end" :> ("date" :> On(11)))

\* the event resources the event source answers with
EventSourceRecords == {Standup, AllDay, Untitled, NoStart, NoEndValue, Unparseable}

EventLists == UNION {[1..n -> EventSourceRecords] : n \in 0..MaxEvents}

\* ------------------------------------------------------------ Parameters
Or(a, b) == IF a = "" THEN b ELSE a

DefaultParameters == [calendarId |-> "primary", timeMin |-> Now, orderBy |-> "startTime"]

get_user_preferences(t) ==
  [calendarId |-> Or(t.calendarId, "primary"),
   timeMin |-> Or(t.timeMin, Now),
   orderBy |-> Or(t.orderBy, "startTime")]

\* ------------------------------------------------------------ authenticate
authenticate(tok, cj, refreshOk, flowOk) ==
  IF tok = "corrupt" THEN [exc |-> "ValueError", creds |-> "None", token |-> tok]
  ELSE IF tok = "valid" THEN [exc |-> "none", creds |-> "Credentials", token |-> tok]
  ELSE IF tok = "expired"
    THEN IF refreshOk
           THEN [exc |-> "none", creds |-> "Credentials", token |-> "valid"]
           ELSE [exc |-> "RefreshError", creds |-> "None", token |-> tok]
  ELSE IF ~cj THEN [exc |-> "FileNotFoundError", creds |-> "None", token |-> tok]
  ELSE IF ~flowOk THEN [exc |-> "OAuthError", creds |-> "None", token |-> tok]
  ELSE [exc |-> "none", creds |-> "Credentials", token |-> "valid"]

\* the except clauses of main
handler(exc) ==
  IF exc = "HttpError" THEN "An error occurred while accessing Google Calendar"
  ELSE IF exc = "FileNotFoundError" THEN "credentials.json not found"
  ELSE "An unexpected error occurred"

VARIABLES pc, tz, event, result, token, credentialsJson, creds, Parameters,
          typed, query, events, cal, idx, file, file0, opened, raised, out

vars == <<pc, tz, event, result, token, credentialsJson, creds, Parameters,
          typed, query, events, cal, idx, file, file0, opened, raised, out>>

\* ------------------------------------------------------------------ main
Init ==
  /\ pc = "authenticate"
  /\ tz \in Zones
  /\ event = NoEvent
  /\ result = NoResult
  /\ token \in TokenStates
  /\ credentialsJson \in BOOLEAN
  /\ creds = "None"
  /\ Parameters = DefaultParameters
  /\ typed = EmptyDict
  /\ query = EmptyDict
  /\ events = <<>>
  /\ cal = EmptyDict
  /\ idx = 0
  /\ file0 \in {NoFile, OldFile}
  /\ file = file0
  /\ opened = FALSE
  /\ raised = "none"
  /\ out = <<>>

\* a mutant of after_authenticate: a failed authentication is not looked at
after_authenticate_unchecked(r) == "build"

\* where main goes once authenticate has ended with r
after_authenticate(r) ==
  IF r.exc # "none" \/ r.creds = "None" THEN "done" ELSE "build"

Authenticate ==
  /\ pc = "authenticate"
  /\ \E refreshOk \in BOOLEAN, flowOk \in BOOLEAN :
       LET r == authenticate(token, credentialsJson, refreshOk, flowOk) IN
         /\ token' = r.token
         /\ creds' = r.creds
         /\ raised' = r.exc
         /\ pc' = after_authenticate(r)
         /\ out' = IF r.exc # "none" THEN Append(out, handler(r.exc))
                   ELSE IF r.creds = "None" THEN Append(out, "Authentication failed")
                   ELSE out
  /\ UNCHANGED <<tz, event, result, credentialsJson, Parameters, typed, query,
                 events, cal, idx, file, file0, opened>>

Build ==
  /\ pc = "build"
  /\ \E exc \in {"none", "HttpError"} :
       /\ raised' = exc
       /\ pc' = IF exc = "none" THEN "get_user_preferences" ELSE "done"
       /\ out' = IF exc = "none" THEN out ELSE Append(out, handler(exc))
  /\ UNCHANGED <<tz, event, result, token, credentialsJson, creds, Parameters,
                 typed, query, events, cal, idx, file, file0, opened>>

GetUserPreferences ==
  /\ pc = "get_user_preferences"
  /\ \E t \in TypedInputs :
       /\ typed' = t
       /\ Parameters' = get_user_preferences(t)
  /\ pc' = "fetch_events"
  /\ UNCHANGED <<tz, event, result, token, credentialsJson, creds, query,
                 events, cal, idx, file, file0, opened, raised, out>>

\* service.events().list(...).execute() and events_result.get("items", [])
FetchEvents ==
  /\ pc = "fetch_events"
  /\ query' = [calendarId |-> Parameters.calendarId, singleEvents |-> TRUE,
               timeMin |-> Parameters.timeMin, orderBy |-> Parameters.orderBy]
  /\ \/ /\ raised' = "HttpError"
        /\ out' = Append(out, handler("HttpError"))
        /\ pc' = "done"
        /\ UNCHANGED events
     \/ \E events_result \in Opt("items", EventLists) :
          /\ events' = get(events_result, "items", <<>>)
          /\ pc' = "save_ical_file"
          /\ UNCHANGED <<raised, out>>
  /\ UNCHANGED <<tz, event, result, token, credentialsJson, creds, Parameters,
                 typed, cal, idx, file, file0, opened>>

\* cal = Calendar()
SaveBegin ==
  /\ pc = "save_ical_file"
  /\ cal' = [subcomponents |-> <<>>]
  /\ idx' = 1
  /\ pc' = "for"
  /\ UNCHANGED <<tz, event, result, token, credentialsJson, creds, Parameters,
                 typed, query, events, file, file0, opened, raised, out>>

\* a mutant of SaveLoop: a record that fails the transformation is skipped
SaveLoop_skip ==
  /\ pc = "for"
  /\ idx <= Len(events)
  /\ LET r == create_ical_event(events[idx], tz) IN
       /\ event' = events[idx]
       /\ result' = r
       /\ cal' = IF r.exc = "none" THEN add_component(cal, r.entry) ELSE cal
       /\ idx' = idx + 1
       /\ UNCHANGED <<pc, raised, out>>
  /\ UNCHANGED <<tz, token, credentialsJson, creds, Parameters, typed, query,
                 events, file, file0, opened>>

\* one iteration of the for loop; an exception leaves save_ical_file, whose
\* local cal goes with its frame, and lands in main's except clauses
SaveLoop ==
  /\ pc = "for"
  /\ idx <= Len(events)
  /\ LET r == create_ical_event(events[idx], tz) IN
       /\ event' = events[idx]
       /\ result' = r
       /\ IF r.exc = "none"
            THEN /\ cal' = add_component(cal, r.entry)
                 /\ idx' = idx + 1
                 /\ UNCHANGED <<pc, raised, out>>
            ELSE /\ cal' = EmptyDict
                 /\ raised' = r.exc
                 /\ out' = Append(out, handler(r.exc))
                 /\ pc' = "done"
                 /\ UNCHANGED idx
  /\ UNCHANGED <<tz, token, credentialsJson, creds, Parameters, typed, query,
                 events, file, file0, opened>>

\* open(filename, 'wb') truncates the file
SaveOpen ==
  /\ pc = "for"
  /\ idx > Len(events)
  /\ \E exc \in {"none", "PermissionError"} :
       IF exc = "none"
         THEN /\ file' = [bytes |-> <<>>]
              /\ pc' = "write"
              /\ UNCHANGED <<cal, raised, out>>
         ELSE /\ cal' = EmptyDict
              /\ raised' = exc
              /\ out' = Append(out, handler(exc))
              /\ pc' = "done"
              /\ UNCHANGED file
  /\ UNCHANGED <<tz, event, result, token, credentialsJson, creds, Parameters,
                 typed, query, events, idx, file0, opened>>

\* f.write(cal.to_ical()) and the closing print
SaveWrite ==
  /\ pc = "write"
  /\ file' = [bytes |-> to_ical(cal)]
  /\ out' = Append(out, "Successfully created calendar.ics")
  /\ cal' = EmptyDict
  /\ pc' = "open_ical_file"
  /\ UNCHANGED <<tz, event, result, token, credentialsJson, creds, Parameters,
                 typed, query, events, idx, file0, opened, raised>>

\* os.system('xdg-open ...')
OpenIcalFile ==
  /\ pc = "open_ical_file"
  /\ opened' = TRUE
  /\ \E exit_code \in {0, 1} :
       out' = IF exit_code # 0 THEN Append(out, "Could not open calendar.ics automatically")
              ELSE out
  /\ pc' = "done"
  /\ UNCHANGED <<tz, event, result, token, credentialsJson, creds, Parameters,
                 typed, query, events, cal, idx, file, file0, raised>>

Next ==
  \/ Authenticate
  \/ Build
  \/ GetUserPreferences
  \/ FetchEvents
  \/ SaveBegin
  \/ SaveLoop
  \/ SaveOpen
  \/ SaveWrite
  \/ OpenIcalFile

Spec == Init /\ [][Next]_vars

\* ------------------------------------------- the transformation on its own
InitTransform ==
  /\ pc = "create_ical_event"
  /\ tz \in Zones
  /\ event \in RawEventRecords
  /\ result = NoResult
  /\ token = "valid"
  /\ credentialsJson = TRUE
  /\ creds = "Credentials"
  /\ Parameters = DefaultParameters
  /\ typed = EmptyDict
  /\ query = EmptyDict
  /\ events = <<>>
  /\ cal = EmptyDict
  /\ idx = 0
  /\ file0 = NoFile
  /\ file = file0
  /\ opened = FALSE
  /\ raised = "none"
  /\ out = <<>>

Transform ==
  /\ pc = "create_ical_event"
  /\ result' = create_ical_event(event, tz)
  /\ pc' = "returned"
  /\ UNCHANGED <<tz, event, token, credentialsJson, creds, Parameters, typed,
                 query, events, cal, idx, file, file0, opened, raised, out>>

NextTransform == Transform

SpecTransform == InitTransform /\ [][NextTransform]_vars

\* ================================================================ claims
\* create_ical_event has been applied to event
Called == result.exc # "pending"

HasStartEnd == "start" \in DOMAIN event /\ "end" \in DOMAIN event

TzQualified(m) ==
  /\ "dateTime" \in DOMAIN m
  /\ m.dateTime.kind = "datetime"
  /\ "off" \in DOMAIN m.dateTime

\* the UTC datetime u is the instant the zone-qualified text s denotes
SameInstantUTC(u, s) ==
  /\ u.utcoffset = 0
  /\ u.min \in 0..(24 * 60 - 1)
  /\ u.day * (24 * 60) + u.min = s.day * (24 * 60) + s.min - s.off

\* C1: when start and end both carry a zone-qualified date-time,
\* create_ical_event succeeds and dtstart and dtend are the same instants in
\* UTC, whatever the local zone of the machine.
C1_SameInstantInUTC ==
  (Called /\ HasStartEnd /\ TzQualified(event.start) /\ TzQualified(event.end))
    => /\ result.exc = "none"
       /\ SameInstantUTC(result.entry.dtstart, event.start.dateTime)
       /\ SameInstantUTC(result.entry.dtend, event.end.dateTime)

C1_Witness ==
  /\ Called /\ HasStartEnd /\ tz = 60
  /\ event.start = ("dateTime" :> At(10, 540, -300))
  /\ event.end = ("dateTime" :> At(10, 1410, -300))
  /\ result.exc = "none"
  /\ result.entry.dtstart = [day |-> 10, min |-> 840, utcoffset |-> 0]
  /\ result.entry.dtend = [day |-> 11, min |-> 270, utcoffset |-> 0]

DateOnly(m) == DOMAIN m = {"date"}

\* C2: for a record with date-only start and end the transformation succeeds
\* and yields the same dtstart and dtend under every local zone of the
\* machine.
C2_DateOnlyZoneIndependent ==
  (Called /\ HasStartEnd /\ DateOnly(event.start) /\ DateOnly(event.end))
    => /\ result.exc = "none"
       /\ \A z \in Zones :
            /\ create_ical_event(event, z).entry.dtstart = result.entry.dtstart
            /\ create_ical_event(event, z).entry.dtend = result.entry.dtend

NoTimeValue(m) == "dateTime" \notin DOMAIN m /\ "date" \notin DOMAIN m

MissingStartOrEnd(ev) ==
  \/ "start" \notin DOMAIN ev
  \/ "end" \notin DOMAIN ev
  \/ NoTimeValue(ev.start)
  \/ NoTimeValue(ev.end)

\* C3: a record that lacks both time fields for start or for end (or the
\* start or end mapping) fails with MalformedRecord, which main reports apart
\* from a transport failure and from any other unexpected error.
C3_MalformedRecordDistinct ==
  (pc = "done" /\ Called /\ MissingStartOrEnd(event))
    => /\ result.exc = "MalformedRecord"
       /\ raised = "MalformedRecord"
       /\ handler(raised) # handler("HttpError")
       /\ handler(raised) # handler("RuntimeError")

\* C4: when record idx fails the transformation after records 1..idx-1 were
\* appended, the failure is reported and the calendar still holds the entries
\* of records 1..idx-1, ready to be serialized.
C4_PartialCalendarKept ==
  (pc = "done" /\ Called /\ result.exc # "none" /\ idx >= 2)
    => /\ out # <<>>
       /\ "subcomponents" \in DOMAIN cal
       /\ Len(cal.subcomponents) = idx - 1
       /\ \A j \in 1..(idx - 1) :
            cal.subcomponents[j] = create_ical_event(events[j], tz).entry

\* calendar.ics has been written by this run
Written == pc = "open_ical_file" \/ opened

VEventStarts(b) ==
  {k \in 1..Len(b) : b[k].name = "BEGIN" /\ b[k].value = "VEVENT"}

IsUtcStamp(v, dt) ==
  v.date = dt.day /\ v.hour * 60 + v.minute = dt.min /\ v.minute \in 0..59 /\ v.suffix = "Z"

\* lines k..k+6 of b are the component of entry e
IsComponentOf(b, k, e) ==
  /\ b[k].name = "BEGIN" /\ b[k].value = "VEVENT"
  /\ b[k + 1].name = "SUMMARY" /\ b[k + 1].value = e.summary
  /\ b[k + 2].name = "DTSTART" /\ IsUtcStamp(b[k + 2].value, e.dtstart)
  /\ b[k + 3].name = "DTEND" /\ IsUtcStamp(b[k + 3].value, e.dtend)
  /\ b[k + 4].name = "DESCRIPTION" /\ b[k + 4].value = e.description
  /\ b[k + 5].name = "LOCATION" /\ b[k + 5].value = e.location
  /\ b[k + 6].name = "END" /\ b[k + 6].value = "VEVENT"

HasTimeValue(m) ==
  \/ "dateTime" \in DOMAIN m /\ m.dateTime.kind # "text"
  \/ "dateTime" \notin DOMAIN m /\ "date" \in DOMAIN m

WellFormed(ev) ==
  /\ "start" \in DOMAIN ev /\ "end" \in DOMAIN ev
  /\ HasTimeValue(ev.start) /\ HasTimeValue(ev.end)

\* C5: save_ical_file on N well-formed events never fails in the
\* transformation, and the document it writes holds exactly N components, the
\* i-th one carrying the transformation of the i-th event; N = 0 gives a
\* document without components.
C5_OneComponentPerEventInOrder ==
  /\ (idx >= 1 /\ \A i \in 1..Len(events) : WellFormed(events[i]))
       => /\ raised \in {"none", "PermissionError"}
          /\ (pc = "done" /\ raised = "none" => Written)
  /\ Written =>
       LET b == file.bytes
           N == Len(events) IN
         /\ Len(b) = 2 + 7 * N
         /\ b[1].name = "BEGIN" /\ b[1].value = "VCALENDAR"
         /\ b[Len(b)].name = "END" /\ b[Len(b)].value = "VCALENDAR"
         /\ Cardinality(VEventStarts(b)) = N
         /\ \A i \in 1..N :
              IsComponentOf(b, 2 + 7 * (i - 1), create_ical_event(events[i], tz).entry)

C5_Witness ==
  /\ pc = "done" /\ opened
  /\ Len(events) = 2
  /\ events[1] = Standup /\ events[2] = AllDay
  /\ Len(file.bytes) = 16

\* C6: the entry's title is "No Title" when the record's title is absent or
\* empty and the record's title otherwise; description and location are ""
\* when absent and the record's value otherwise.
C6_Defaulting ==
  (Called /\ result.exc = "none")
    => /\ result.entry.summary =
            (IF "summary" \notin DOMAIN event THEN "No Title"
             ELSE IF event.summary = "" THEN "No Title" ELSE event.summary)
       /\ result.entry.description =
            (IF "description" \notin DOMAIN event THEN "" ELSE event.description)
       /\ result.entry.location =
            (IF "location" \notin DOMAIN event THEN "" ELSE event.location)

\* v is the value of mapping m that the preference rule selects
IsPreferred(m, v) ==
  IF "dateTime" \in DOMAIN m THEN v = m.dateTime
  ELSE IF "date" \in DOMAIN m THEN v = m.date
  ELSE v = None

\* the UTC datetime u is the instant of the selected value of m on a machine
\* whose local zone is z
IsInstantOfPreferred(u, m, z) ==
  LET v == IF "dateTime" \in DOMAIN m THEN m.dateTime ELSE m.date IN
    u.day * (24 * 60) + u.min =
      v.day * (24 * 60) + (IF v.kind = "date" THEN 0 ELSE v.min)
        - (IF "off" \in DOMAIN v THEN v.off ELSE z)

\* C7: for start and for end separately, the dateTime value is used whenever
\* it is present (also next to a date value) and the date value exactly when
\* dateTime is absent; neither choice looks at the other mapping.
C7_PrefersDateTimePerSide ==
  Called =>
    /\ "start" \in DOMAIN event
         => /\ "start" \in DOMAIN result.locals
            /\ IsPreferred(event.start, result.locals.start)
    /\ HasStartEnd
         => /\ "end" \in DOMAIN result.locals
            /\ IsPreferred(event.end, result.locals.end)
    /\ result.exc = "none"
         => /\ IsInstantOfPreferred(result.entry.dtstart, event.start, tz)
            /\ IsInstantOfPreferred(result.entry.dtend, event.end, tz)

C7_Witness ==
  /\ Called /\ HasStartEnd
  /\ event.start = ("dateTime" :> At(11, 60, 330)) @@ ("date" :> On(10))
  /\ event.end = ("date" :> On(11))
  /\ tz = 0
  /\ result.exc = "none"
  /\ result.entry.dtstart = [day |-> 10, min |-> 1170, utcoffset |-> 0]
  /\ result.entry.dtend = [day |-> 11, min |-> 0, utcoffset |-> 0]

\* authenticate has ended without credentials
AuthenticationFailed == pc # "authenticate" /\ creds = "None"

\* C8: once authentication has failed the run is over: no prompt, no fetch,
\* no transformation, no write of calendar.ics and no call of the opener.
C8_NothingAfterFailedAuthentication ==
  AuthenticationFailed
    => /\ pc = "done"
       /\ DOMAIN typed = {}
       /\ DOMAIN query = {}
       /\ events = <<>>
       /\ idx = 0
       /\ ~Called
       /\ DOMAIN cal = {}
       /\ file = file0
       /\ ~opened

C8_Witness ==
  /\ pc = "done" /\ creds = "None" /\ raised = "RefreshError"
  /\ out = <<"An unexpected error occurred">>

\* C9: the query handed to the event source names calendar "primary" when the
\* user typed none, and its ordering key is "startTime" or "updated".
C9_QueryParameters ==
  DOMAIN query # {}
    => /\ typed.calendarId = "" => query.calendarId = "primary"
       /\ query.orderBy \in {"startTime", "updated"}

\* C10: calendar.ics is touched only after every fetched record has been
\* transformed, the opener runs only after the document has been written,
\* and a run that ends with an error leaves calendar.ics as it was, does not
\* call the opener and reports the error.
C10_AllOrNothing ==
  /\ file # file0
       => /\ idx = Len(events) + 1
          /\ \A i \in 1..Len(events) : create_ical_event(events[i], tz).exc = "none"
  /\ opened
       => /\ file # file0
          /\ Len(file.bytes) = 2 + 7 * Len(events)
  /\ raised # "none"
       => /\ pc = "done"
          /\ file = file0
          /\ ~opened
          /\ out # <<>>
          /\ out[Len(out)] = handler(raised)

C10_Witness ==
  /\ pc = "done" /\ raised = "TypeError"
  /\ idx = 2 /\ events[1] = Standup /\ events[2] = NoEndValue
  /\ file0 = OldFile /\ file = OldFile
  /\ ~opened
====
